---- MODULE Spec2Model ----
(***************************************************************************)
(* Model of the badminton rotation app.                                    *)
(*                                                                         *)
(*   Spec         one call of smartAllocation (src/fronent/utils.ts) on a  *)
(*                roster, a court list and a match history                 *)
(*   SpecStats    getPlayerStats and smartAllocation on the same inputs    *)
(*   SpecShuffle  one call of shuffleArray                                 *)
(*   SpecApp      the application state under the court, roster and match  *)
(*                handlers (useCourtManagement, usePlayerManagement,       *)
(*                useMatchHistory, App.tsx)                                *)
(*   SpecCycle    cycles of smart allocation, start and finish             *)
(*   SpecSets     one call of arePlayerSetsEqual in each argument order    *)
(*   SpecUI       the application under its event handlers, with the       *)
(*                selected player and the player picker                    *)
(*   SpecUndo     useLocalStorageWithUndo and useUndoRedo under the same   *)
(*                setState, undo and redo calls, and the debounce timer    *)
(*   SpecAppUndo  the application state held by useLocalStorageWithUndo    *)
(*                                                                         *)
(* Ids and names are small integers.  A player's id is its position in the *)
(* roster; court ids are distinct, as generateId and INITIAL_COURTS give   *)
(* them; NULL (0) is the empty slot.  Math.random is one value of          *)
(* 0..MaxDraw per available player: equal draws are a tie that the         *)
(* (stable) sort leaves in roster order.  Date.now() is any reading not    *)
(* before the last one.                                                    *)
(***************************************************************************)
EXTENDS Integers, Sequences, FiniteSets

VARIABLES
  allPlayers,     \* roster passed to smartAllocation
  currentCourts,  \* court list passed to smartAllocation
  history,        \* rounds passed to smartAllocation
  randomDraws,    \* randomDraws[i]: the Math.random() of the i-th available player
  result,         \* the returned court list
  pc,             \* "input" before the call, "done" after it
  statsRecord,    \* <<>> before getPlayerStats is called, <<its result>> after
  array,          \* the array passed to shuffleArray, as its caller sees it
  shuffled,       \* <<>> before shuffleArray is called, <<its result>> after
  appPlayers,     \* appState.players
  appCourts,      \* appState.courts
  appRounds,      \* appState.rounds
  now,            \* Date.now()
  starts,         \* number of successful starts of a match so far
  opCount,        \* number of operations run on the application state so far
  idsA,           \* first argument of arePlayerSetsEqual
  idsB,           \* second argument of arePlayerSetsEqual
  setsEqual,      \* <<>> before the calls, <<result on (idsA, idsB), result on (idsB, idsA)>> after
  selectedPlayerId, \* App's selectedPlayerId: NULL or the id of the selected player
  pickerTarget,   \* usePlayerModal's pickerTarget: NoTarget or <<courtId, slotIndex>>
  hook,           \* useLocalStorageWithUndo: undoState, its refs and the localStorage item
  plain,          \* useUndoRedo: state and skipRecordRef
  preStart        \* <<the application state before it>> right after a match start, else <<>>

engineVars == <<allPlayers, currentCourts, history, randomDraws, result, pc>>

shuffleVars == <<array, shuffled>>

appVars == <<appPlayers, appCourts, appRounds, now, starts, opCount>>

setVars == <<idsA, idsB, setsEqual>>

uiVars == <<selectedPlayerId, pickerTarget>>

undoVars == <<hook, plain, preStart>>

vars == <<engineVars, statsRecord, shuffleVars, appVars, setVars, uiVars, undoVars>>

NULL == 0

(* ---------------------------- bounds ---------------------------------- *)

MaxCourts == 3
MaxRounds == 2
MaxLevel == 3
MaxDraw == 1
MaxShuffleLen == 4
MaxElement == 3
MaxAppCourts == 2
MaxWindows == 1
MaxOps == 2
MaxStarts == 6
MaxIdsLen == 3
MaxId == 2
MaxHistory == 2
MaxValue == 1

(* ------------------------- generic helpers ---------------------------- *)

\* Array.prototype.includes
Includes(seq, x) == \E i \in 1..Len(seq) : seq[i] = x

Min(a, b) == IF a < b THEN a ELSE b

\* Array.prototype.slice(start, end) for 0 <= start: 0-based, end exclusive,
\* both clamped to the length
Slice(seq, start, end) ==
  SubSeq(seq, start + 1, IF end > Len(seq) THEN Len(seq) ELSE end)

\* Array.prototype.sort: cmp[i][j] is the comparator's value on (seq[i], seq[j]);
\* a goes after b iff the comparator is > 0 on (a, b), and the sort is stable:
\* elements that compare equal keep their original order.  rank[i] is the position
\* of seq[i] in the sorted array.  (<<>> \o f is f, evaluated once by TLC.)
Sort(seq, cmp) ==
  LET n == Len(seq)
      rank == <<>> \o [i \in 1..n |->
                 1 + Cardinality({j \in 1..n :
                       \/ cmp[j][i] < 0
                       \/ (cmp[j][i] = 0 /\ j < i)})]
  IN  [k \in 1..n |-> seq[CHOOSE i \in 1..n : rank[i] = k]]

(* --------------------------- smartAllocation -------------------------- *)

\* 1. Identify Locked Resources: ids seated on playing courts (falsy slots skipped)
PlayingPlayerIds(courts) ==
  UNION {{courts[i].playerIds[j] : j \in DOMAIN courts[i].playerIds} :
           i \in {k \in 1..Len(courts) : courts[k].status = "playing"}} \ {NULL}

\* AvailablePlayers without the exclusion of the players on playing courts
AvailablePlayers_IgnoresLocks(players, courts) ==
  LET Keep(p) == p.isActive
  IN  SelectSeq(players, Keep)

\* AvailablePlayers without the isActive test
AvailablePlayers_IgnoresActive(players, courts) ==
  LET playingPlayerIds == PlayingPlayerIds(courts)
      Keep(p) == p.id \notin playingPlayerIds
  IN  SelectSeq(players, Keep)

\* 2. Filter Available Active Players (active and not currently playing)
AvailablePlayers(players, courts) ==
  LET playingPlayerIds == PlayingPlayerIds(courts)
      Keep(p) == p.isActive /\ p.id \notin playingPlayerIds
  IN  SelectSeq(players, Keep)

\* 3. the two nested forEach loops over rounds and matches; acc carries
\*    playedCount and lastRoundIndex, rIdx is the 0-based round index
RECURSIVE ScanMatches(_, _, _, _)
ScanMatches(matches, name, rIdx, acc) ==
  IF matches = <<>> THEN acc
  ELSE ScanMatches(Tail(matches), name, rIdx,
         IF Includes(Head(matches).playerNames, name)
         THEN [playedCount |-> acc.playedCount + 1, lastRoundIndex |-> rIdx]
         ELSE acc)

RECURSIVE ScanRounds(_, _, _, _)
ScanRounds(rounds, name, rIdx, acc) ==
  IF rounds = <<>> THEN acc
  ELSE ScanRounds(Tail(rounds), name, rIdx + 1,
                  ScanMatches(Head(rounds).matches, name, rIdx, acc))

NeverPlayedRest == 999

RestRounds(lastRoundIndex, historyLength) ==
  IF lastRoundIndex = -1 THEN NeverPlayedRest ELSE historyLength - lastRoundIndex

\* one entry of playerStats; draw stands for Math.random()
PlayerStat(p, rounds, draw) ==
  LET scan == ScanRounds(rounds, p.name, 0, [playedCount |-> 0, lastRoundIndex |-> -1])
  IN  [player |-> p,
       playedCount |-> scan.playedCount,
       restRounds |-> RestRounds(scan.lastRoundIndex, Len(rounds)),
       random |-> draw]

\* PriorityCompare without the restRounds key: equal counts go to the draw
PriorityCompare_IgnoresRest(a, b) ==
  IF a.playedCount # b.playedCount THEN a.playedCount - b.playedCount
  ELSE b.random - a.random

\* PriorityCompare with playedCount descending
PriorityCompare_MostPlayedFirst(a, b) ==
  IF a.playedCount # b.playedCount THEN b.playedCount - a.playedCount
  ELSE IF a.restRounds # b.restRounds THEN b.restRounds - a.restRounds
  ELSE b.random - a.random

\* PriorityCompare with restRounds ascending
PriorityCompare_LeastRestedFirst(a, b) ==
  IF a.playedCount # b.playedCount THEN a.playedCount - b.playedCount
  ELSE IF a.restRounds # b.restRounds THEN a.restRounds - b.restRounds
  ELSE b.random - a.random

\* 4. Priority: Least Played > Most Rested > Random
PriorityCompare(a, b) ==
  IF a.playedCount # b.playedCount THEN a.playedCount - b.playedCount
  ELSE IF a.restRounds # b.restRounds THEN b.restRounds - a.restRounds
  ELSE b.random - a.random

LevelCompare(a, b) == b.level - a.level

\* playerStats.sort((a, b) => ...)
SortByPriority(stats) ==
  Sort(<<>> \o stats, <<>> \o [i \in 1..Len(stats) |-> <<>> \o [j \in 1..Len(stats) |->
                 PriorityCompare(stats[i], stats[j])]])

\* .sort((a, b) => b.level - a.level)
SortByLevel(players) ==
  Sort(<<>> \o players, <<>> \o [i \in 1..Len(players) |-> <<>> \o [j \in 1..Len(players) |->
                   LevelCompare(players[i], players[j])]])

\* 5. courts that are not playing
TargetCourts(courts) ==
  LET Keep(c) == c.status = "allocating" IN SelectSeq(courts, Keep)

\* CourtsToFillCount rounding the number of courts up instead of down
CourtsToFillCount_RoundsUp(targetCount, availableCount) ==
  Min(targetCount, (availableCount + 3) \div 4)

\* 6. how many full courts of 4 can be created
CourtsToFillCount(targetCount, availableCount) == Min(targetCount, availableCount \div 4)

\* SnakeDistribute turning one court before the ends: 0,1,2,1,0,1,...
RECURSIVE SnakeDistribute_TurnsEarly(_, _, _, _, _)
SnakeDistribute_TurnsEarly(players, courtsToFillIds, courtIdx, forward, amap) ==
  IF players = <<>> THEN amap
  ELSE LET cId == courtsToFillIds[courtIdx + 1]
           placed == [amap EXCEPT ![cId] = Append(@, Head(players))]
           n == Len(courtsToFillIds)
           stepped == IF forward THEN courtIdx + 1 ELSE courtIdx - 1
           nextIdx == IF n = 1 THEN 0
                      ELSE IF forward
                      THEN (IF stepped >= n THEN n - 2 ELSE stepped)
                      ELSE (IF stepped < 0 THEN 1 ELSE stepped)
           nextForward == IF forward THEN ~(stepped >= n) ELSE stepped < 0
       IN  SnakeDistribute_TurnsEarly(Tail(players), courtsToFillIds, nextIdx, nextForward, placed)

\* SnakeDistribute as a plain round robin: 0,1,2,0,1,2,...
RECURSIVE SnakeDistribute_RoundRobin(_, _, _, _, _)
SnakeDistribute_RoundRobin(players, courtsToFillIds, courtIdx, forward, amap) ==
  IF players = <<>> THEN amap
  ELSE LET cId == courtsToFillIds[courtIdx + 1]
           placed == [amap EXCEPT ![cId] = Append(@, Head(players))]
       IN  SnakeDistribute_RoundRobin(Tail(players), courtsToFillIds,
                                      (courtIdx + 1) % Len(courtsToFillIds), forward, placed)

\* 7. the forEach over selectedPlayers: courtIdx (0-based) and forward are the
\*    loop's mutable variables, amap is assignmentMap
RECURSIVE SnakeDistribute(_, _, _, _, _)
SnakeDistribute(players, courtsToFillIds, courtIdx, forward, amap) ==
  IF players = <<>> THEN amap
  ELSE LET cId == courtsToFillIds[courtIdx + 1]
           placed == [amap EXCEPT ![cId] = Append(@, Head(players))]
           n == Len(courtsToFillIds)
           stepped == IF forward THEN courtIdx + 1 ELSE courtIdx - 1
           nextIdx == IF forward
                      THEN (IF stepped >= n THEN n - 1 ELSE stepped)
                      ELSE (IF stepped < 0 THEN 0 ELSE stepped)
           nextForward == IF forward THEN ~(stepped >= n) ELSE stepped < 0
       IN  SnakeDistribute(Tail(players), courtsToFillIds, nextIdx, nextForward, placed)

EmptySlots == <<NULL, NULL, NULL, NULL>>

\* AllocatedIds splitting by rank: [Best, Second, Third, Worst]
AllocatedIds_RankSplit(allocatedPlayers) ==
  IF Len(allocatedPlayers) = 4
  THEN LET sorted == SortByLevel(allocatedPlayers)
       IN  <<sorted[1].id, sorted[2].id, sorted[3].id, sorted[4].id>>
  ELSE [i \in 1..4 |-> IF i <= Len(allocatedPlayers) THEN allocatedPlayers[i].id ELSE NULL]

\* 8. slots of one allocating court from the players assigned to it
AllocatedIds(allocatedPlayers) ==
  IF Len(allocatedPlayers) = 4
  THEN LET sorted == SortByLevel(allocatedPlayers)
       IN  <<sorted[1].id, sorted[4].id, sorted[2].id, sorted[3].id>>
  ELSE [i \in 1..4 |-> IF i <= Len(allocatedPlayers) THEN allocatedPlayers[i].id ELSE NULL]

\* playerStats after the priority sort; draws[i] is the Math.random() of the
\* i-th available player
PlayerStats(players, courts, rounds, draws) ==
  LET availablePlayers == AvailablePlayers(players, courts)
  IN  SortByPriority(<<>> \o [i \in 1..Len(availablePlayers) |->
                                PlayerStat(availablePlayers[i], rounds, draws[i])])

\* 6./7. the top priority players, sorted by level descending
SelectedPlayers(players, courts, rounds, draws) ==
  LET availablePlayers == AvailablePlayers(players, courts)
      targetCourts == TargetCourts(courts)
      courtsToFillCount == CourtsToFillCount(Len(targetCourts), Len(availablePlayers))
      playersToTakeCount == courtsToFillCount * 4
      selectedStats == Slice(PlayerStats(players, courts, rounds, draws), 0, playersToTakeCount)
  IN  SortByLevel(<<>> \o [i \in 1..Len(selectedStats) |-> selectedStats[i].player])

\* 7. assignmentMap: court id -> players assigned, for every target court
AssignmentMap(players, courts, rounds, draws) ==
  LET availablePlayers == AvailablePlayers(players, courts)
      targetCourts == TargetCourts(courts)
      courtsToFillCount == CourtsToFillCount(Len(targetCourts), Len(availablePlayers))
      emptyMap == [cid \in {targetCourts[i].id : i \in 1..Len(targetCourts)} |-> <<>>]
      filled == Slice(targetCourts, 0, courtsToFillCount)
      courtsToFillIds == [i \in 1..Len(filled) |-> filled[i].id]
  IN  IF courtsToFillCount > 0
      THEN SnakeDistribute(SelectedPlayers(players, courts, rounds, draws),
                           courtsToFillIds, 0, TRUE, emptyMap)
      ELSE emptyMap

\* MergeCourt without the early return for playing courts
MergeCourt_TouchesPlaying(c, assignmentMap) ==
  IF c.id \in DOMAIN assignmentMap
  THEN [c EXCEPT !.status = "allocating",
                 !.playerIds = AllocatedIds(assignmentMap[c.id])]
  ELSE [c EXCEPT !.playerIds = EmptySlots]

\* MergeCourt leaving a court that received nobody as it was
MergeCourt_KeepsStale(c, assignmentMap) ==
  IF c.status = "playing" THEN c
  ELSE IF c.id \in DOMAIN assignmentMap /\ assignmentMap[c.id] # <<>>
       THEN [c EXCEPT !.status = "allocating",
                      !.playerIds = AllocatedIds(assignmentMap[c.id])]
       ELSE c

\* MergeCourt starting the match on every court it fills
MergeCourt_StartsFilled(c, assignmentMap) ==
  IF c.status = "playing" THEN c
  ELSE IF c.id \in DOMAIN assignmentMap
       THEN [c EXCEPT !.status = IF assignmentMap[c.id] # <<>> THEN "playing"
                                  ELSE "allocating",
                      !.playerIds = AllocatedIds(assignmentMap[c.id])]
       ELSE [c EXCEPT !.playerIds = EmptySlots]

\* 8. the callback of currentCourts.map
MergeCourt(c, assignmentMap) ==
  IF c.status = "playing" THEN c
  ELSE IF c.id \in DOMAIN assignmentMap
       THEN [c EXCEPT !.status = "allocating",
                      !.playerIds = AllocatedIds(assignmentMap[c.id])]
       ELSE [c EXCEPT !.playerIds = EmptySlots]

\* the whole function
smartAllocation(players, courts, rounds, draws) ==
  LET assignmentMap == AssignmentMap(players, courts, rounds, draws)
  IN  [i \in 1..Len(courts) |-> MergeCourt(courts[i], assignmentMap)]

(* ------------------------------ inputs -------------------------------- *)

CourtSize == 4

Player(i, nm, active, lvl) == [id |-> i, name |-> nm, isActive |-> active, level |-> lvl]

Court(i, st, ids) ==
  [id |-> i, name |-> i, type |-> "A", status |-> st, playerIds |-> ids]

Match(court, names) == [courtName |-> court, playerNames |-> names]

Round(ms) == [matches |-> ms]

Lineup(a) == <<a, a + 1, a + 2, a + 3>>

\* the level of the i-th player of the pool when levels are not varied
PoolLevel(i) == 1 + (i % MaxLevel)

\* every draw sequence for the given inputs
AllDraws(players, courts) ==
  [1..Len(AvailablePlayers(players, courts)) -> 0..MaxDraw]

\* two draw sequences: all equal (ties everywhere), and cycling through the values
SomeDraws(players, courts) ==
  LET n == Len(AvailablePlayers(players, courts))
  IN  {[i \in 1..n |-> 0], [i \in 1..n |-> i % (MaxDraw + 1)]}

\* what court j may look like: empty, holding a stale partial line-up, or playing
\* with one of two line-ups (the second overlaps the next court's)
CourtChoices(j) ==
  {Court(j, "allocating", EmptySlots),
   Court(j, "allocating", <<4 * j - 3, NULL, 4 * j - 2, NULL>>),
   Court(j, "playing", Lineup(4 * j - 3)),
   Court(j, "playing", Lineup(4 * j - 1))}

CourtLists ==
  UNION {{cs \in [1..m -> UNION {CourtChoices(j) : j \in 1..m}] :
            \A j \in 1..m : cs[j] \in CourtChoices(j)} : m \in 0..MaxCourts}

\* Locks and capacity: up to one player more than fills every court, at most one
\* inactive (player off, none when off = 0), any mix of playing and allocating
\* courts, no history.
InitCapacity ==
  /\ \E n \in 0..(CourtSize * MaxCourts + 1), off \in 0..CourtSize :
       /\ off <= n
       /\ allPlayers = [i \in 1..n |-> Player(i, i, i # off, PoolLevel(i))]
  /\ currentCourts \in CourtLists
  /\ history = <<>>
  /\ randomDraws \in SomeDraws(allPlayers, currentCourts)

\* the matches a round of the priority inputs is made of; names 7, 8 and 9 are
\* on no roster
PriorityLineups == <<<<1, 7, 8, 9>>, Lineup(2), <<1, 3, 5, 9>>>>

\* a round holds one or two of those matches, on courts 1 and 2
PriorityRounds ==
  {Round([k \in 1..Len(pick) |-> Match(k, PriorityLineups[pick[k]])]) :
     pick \in {<<1>>, <<2>>, <<3>>, <<1, 2>>, <<2, 3>>}}

Histories == UNION {[1..r -> PriorityRounds] : r \in 0..MaxRounds}

\* Priority: five active players for one open court, every history and every draw;
\* player 2 may carry player 1's name.
InitPriority ==
  /\ \E shared \in BOOLEAN :
       allPlayers = [i \in 1..(CourtSize + 1) |->
                       Player(i, IF shared /\ i = 2 THEN 1 ELSE i, TRUE, PoolLevel(i))]
  /\ currentCourts = <<Court(1, "allocating", EmptySlots)>>
  /\ history \in Histories
  /\ randomDraws \in AllDraws(allPlayers, currentCourts)

\* Team balance: four active players of any levels for one open court, every draw.
InitLevels ==
  /\ \E lv \in [1..CourtSize -> 1..MaxLevel] :
       allPlayers = [i \in 1..CourtSize |-> Player(i, i, TRUE, lv[i])]
  /\ currentCourts = <<Court(1, "allocating", EmptySlots)>>
  /\ history = <<>>
  /\ randomDraws \in AllDraws(allPlayers, currentCourts)

\* Snake: exactly enough active players for every court, levels non-increasing
\* along the roster (cut[l] players have level l or more), all courts open.
InitSnake ==
  /\ \E cut \in [2..MaxLevel -> 0..(CourtSize * MaxCourts)] :
       /\ \A l \in 2..(MaxLevel - 1) : cut[l] >= cut[l + 1]
       /\ allPlayers = [i \in 1..(CourtSize * MaxCourts) |->
                          Player(i, i, TRUE, 1 + Cardinality({l \in 2..MaxLevel : i <= cut[l]}))]
  /\ currentCourts = [j \in 1..MaxCourts |-> Court(j, "allocating", EmptySlots)]
  /\ history = <<>>
  /\ randomDraws \in SomeDraws(allPlayers, currentCourts)

\* rosters of src/fronent/test/utils.test.ts and the roster the app starts with
TestRoster(levels, off) ==
  [i \in 1..Len(levels) |-> Player(i, i, i # off, levels[i])]

\* The inputs of the smartAllocation tests, and the state the app starts in
\* (six players, the sixth resting, two empty courts), with every draw.
InitScenarios ==
  /\ \/ /\ allPlayers = TestRoster(<<5, 6, 7, 8>>, 0)
        /\ currentCourts = <<Court(1, "playing", Lineup(1))>>
     \/ /\ allPlayers = TestRoster(<<5, 6, 7, 8>>, 0)
        /\ currentCourts = <<Court(1, "allocating", EmptySlots)>>
     \/ /\ allPlayers = TestRoster(<<5, 6, 7, 8>>, 4)
        /\ currentCourts = <<Court(1, "allocating", EmptySlots)>>
     \/ /\ allPlayers = TestRoster(<<10, 8, 6, 4>>, 0)
        /\ currentCourts = <<Court(1, "allocating", EmptySlots)>>
     \/ /\ allPlayers = TestRoster(<<8, 6, 7, 9, 5, 4>>, 6)
        /\ currentCourts = <<Court(1, "allocating", EmptySlots),
                             Court(2, "allocating", EmptySlots)>>
  /\ history = <<>>
  /\ randomDraws \in AllDraws(allPlayers, currentCourts)

\* no shuffleArray call is under way
ShuffleIdle == array = <<>> /\ shuffled = <<>>

\* no arePlayerSetsEqual call is part of the run
SetsIdle == idsA = <<>> /\ idsB = <<>> /\ setsEqual = <<>>

\* pickerTarget === null
NoTarget == <<>>

\* no player is selected and the player picker is closed
UIIdle == selectedPlayerId = NULL /\ pickerTarget = NoTarget

\* neither undo hook is part of the run
UndoIdle == hook = <<>> /\ plain = <<>> /\ preStart = <<>>

\* the application state is not part of the run
AppIdle ==
  /\ appPlayers = <<>> /\ appCourts = <<>> /\ appRounds = <<>>
  /\ now = 0 /\ starts = 0 /\ opCount = 0

Init ==
  /\ \/ InitCapacity
     \/ InitPriority
     \/ InitLevels
     \/ InitSnake
     \/ InitScenarios
  /\ result = <<>>
  /\ pc = "input"
  /\ statsRecord = <<>>
  /\ ShuffleIdle
  /\ AppIdle
  /\ SetsIdle
  /\ UIIdle
  /\ UndoIdle

\* SmartAllocate sorting the roster itself by level instead of a copy of it
SmartAllocate_SortsRoster ==
  /\ pc = "input"
  /\ result' = smartAllocation(allPlayers, currentCourts, history, randomDraws)
  /\ pc' = "done"
  /\ allPlayers' = SortByLevel(allPlayers)
  /\ UNCHANGED <<currentCourts, history, randomDraws>>
  /\ UNCHANGED <<statsRecord, shuffleVars, appVars, setVars, uiVars, undoVars>>

\* one call of smartAllocation on the inputs
SmartAllocate ==
  /\ pc = "input"
  /\ result' = smartAllocation(allPlayers, currentCourts, history, randomDraws)
  /\ pc' = "done"
  /\ UNCHANGED <<allPlayers, currentCourts, history, randomDraws>>
  /\ UNCHANGED <<statsRecord, shuffleVars, appVars, setVars, uiVars, undoVars>>

Next == SmartAllocate

Spec == Init /\ [][Next]_vars

(* --------------------------- getPlayerStats --------------------------- *)

\* round.matches.forEach: acc is playedCount
RECURSIVE CountMatches(_, _, _)
CountMatches(matches, name, acc) ==
  IF matches = <<>> THEN acc
  ELSE CountMatches(Tail(matches), name,
         IF Includes(Head(matches).playerNames, name) THEN acc + 1 ELSE acc)

\* CountRounds counting a round once however many of its matches hold the name
RECURSIVE CountRounds_OncePerRound(_, _, _)
CountRounds_OncePerRound(rs, name, acc) ==
  IF rs = <<>> THEN acc
  ELSE CountRounds_OncePerRound(Tail(rs), name,
         IF CountMatches(Head(rs).matches, name, 0) > 0 THEN acc + 1 ELSE acc)

\* history.forEach
RECURSIVE CountRounds(_, _, _)
CountRounds(rs, name, acc) ==
  IF rs = <<>> THEN acc
  ELSE CountRounds(Tail(rs), name, CountMatches(Head(rs).matches, name, acc))

\* the returned Record: players.forEach writes stats[p.id] in roster order, so of
\* two players with one id the later one's count stays
getPlayerStats(ps, rs) ==
  [id \in {ps[i].id : i \in 1..Len(ps)} |->
     LET last == CHOOSE i \in 1..Len(ps) :
                   /\ ps[i].id = id
                   /\ \A j \in 1..Len(ps) : ps[j].id = id => j <= i
     IN  CountRounds(rs, ps[last].name, 0)]

\* matches of the statistics inputs: roster players beside the guests 7 and 8
StatsLineups == <<<<1, 2, 7, 8>>, <<1, 3, 7, 8>>, <<3, 4, 7, 8>>, Lineup(2)>>

\* a round holds one of those matches, or two different ones
StatsRounds ==
  {Round(<<Match(1, StatsLineups[a])>>) : a \in 1..Len(StatsLineups)}
    \cup {Round(<<Match(1, StatsLineups[ab[1]]), Match(2, StatsLineups[ab[2]])>>) :
            ab \in {x \in (1..Len(StatsLineups)) \X (1..Len(StatsLineups)) : x[1] < x[2]}}

StatsHistories == UNION {[1..r -> StatsRounds] : r \in 0..MaxRounds}

\* Statistics: five players, of whom player 1 or 2 may be inactive and player 2 may
\* carry player 1's name, one open court, every such history, two draw sequences.
InitStats ==
  /\ \E shared \in BOOLEAN, off \in 0..2 :
       allPlayers = [i \in 1..(CourtSize + 1) |->
                       Player(i, IF shared /\ i = 2 THEN 1 ELSE i, i # off, PoolLevel(i))]
  /\ currentCourts = <<Court(1, "allocating", EmptySlots)>>
  /\ history \in StatsHistories
  /\ randomDraws \in SomeDraws(allPlayers, currentCourts)
  /\ result = <<>>
  /\ pc = "input"
  /\ statsRecord = <<>>
  /\ ShuffleIdle
  /\ AppIdle
  /\ SetsIdle
  /\ UIIdle
  /\ UndoIdle

\* one call of getPlayerStats on the roster and the history
GetPlayerStats ==
  /\ statsRecord = <<>>
  /\ statsRecord' = <<getPlayerStats(allPlayers, history)>>
  /\ UNCHANGED <<engineVars, shuffleVars, appVars, setVars, uiVars, undoVars>>

NextStats == SmartAllocate \/ GetPlayerStats

SpecStats == InitStats /\ [][NextStats]_vars

(* ----------------------------- shuffleArray --------------------------- *)

\* Swap writing a[i] only, so that a[j]'s value is held twice
Swap_Overwrites(a, i, j) == [a EXCEPT ![i + 1] = a[j + 1]]

\* [a[i], a[j]] = [a[j], a[i]] with 0-based i, j: both right-hand values are read
\* before either element is written
Swap(a, i, j) == [a EXCEPT ![i + 1] = a[j + 1], ![j + 1] = a[i + 1]]

\* the loop for (i = length - 1; i > 0; i--); js[i] is Math.floor(Math.random() * (i + 1))
RECURSIVE FisherYates(_, _, _)
FisherYates(newArray, i, js) ==
  IF i > 0 THEN FisherYates(Swap(newArray, i, js[i]), i - 1, js)
  ELSE newArray

\* the call: newArray is a copy ([...array]), so the swaps leave the argument as it
\* was; the result pairs the argument after the call with the returned array
shuffleArray(a, js) ==
  [array |-> a, returned |-> FisherYates(a, Len(a) - 1, js)]

\* Math.random() is in [0, 1), so the j drawn at index i is one of 0..i
ShuffleDraws(n) == {js \in [1..(n - 1) -> 0..(n - 1)] : \A i \in 1..(n - 1) : js[i] <= i}

\* arrays of up to MaxShuffleLen elements, repeated elements included
ShuffleInputs == UNION {[1..n -> 1..MaxElement] : n \in 0..MaxShuffleLen}

\* the smartAllocation and getPlayerStats calls are not part of the run
EngineIdle ==
  /\ allPlayers = <<>> /\ currentCourts = <<>> /\ history = <<>> /\ randomDraws = <<>>
  /\ result = <<>> /\ pc = "idle" /\ statsRecord = <<>>

InitShuffle ==
  /\ array \in ShuffleInputs
  /\ shuffled = <<>>
  /\ EngineIdle
  /\ AppIdle
  /\ SetsIdle
  /\ UIIdle
  /\ UndoIdle

\* one call of shuffleArray, for every sequence of draws
ShuffleArray ==
  /\ shuffled = <<>>
  /\ \E js \in ShuffleDraws(Len(array)) :
       LET call == shuffleArray(array, js)
       IN  /\ array' = call.array
           /\ shuffled' = <<call.returned>>
  /\ UNCHANGED <<engineVars, statsRecord, appVars, setVars, uiVars, undoVars>>

NextShuffle == ShuffleArray

SpecShuffle == InitShuffle /\ [][NextShuffle]_vars

(* ------------------- court, roster and history hooks ------------------ *)

GROUP_WINDOW_MS == 15 * 60 * 1000

\* the name recorded for a seated id that no roster player has
Unknown == -1

\* a match without a result yet (result is undefined)
NoResult == "none"

\* players.find(p => p.id === id)?.name || 'Unknown'
NameOf(ps, id) ==
  IF \E i \in 1..Len(ps) : ps[i].id = id
  THEN ps[CHOOSE i \in 1..Len(ps) :
            ps[i].id = id /\ \A j \in 1..Len(ps) : ps[j].id = id => i <= j].name
  ELSE Unknown

\* courts.find(c => c.id === courtId): its index, 0 when there is none
FindCourt(cs, courtId) ==
  IF \E i \in 1..Len(cs) : cs[i].id = courtId
  THEN CHOOSE i \in 1..Len(cs) :
         cs[i].id = courtId /\ \A j \in 1..Len(cs) : cs[j].id = courtId => i <= j
  ELSE 0

\* RemoveId dropping the slot instead of emptying it
RemoveId_Filters(ids, playerId) == SelectSeq(ids, LAMBDA pid : pid # playerId)

\* playerIds.map(pid => (pid === playerId ? null : pid))
RemoveId(ids, playerId) ==
  [k \in 1..Len(ids) |-> IF ids[k] = playerId THEN NULL ELSE ids[k]]

\* playerIds.filter(id => id !== null)
ValidPlayerIds(ids) == SelectSeq(ids, LAMBDA pid : pid # NULL)

\* addPlayerToCourt's updater: the player leaves every court that is not playing,
\* then is written into the slot of the court with the given id
addPlayerToCourt(prev, courtId, playerId, targetSlotIndex) ==
  LET courtsWithoutPlayer ==
        [i \in 1..Len(prev) |->
           IF prev[i].status = "playing" THEN prev[i]
           ELSE [prev[i] EXCEPT !.playerIds = RemoveId(@, playerId)]]
  IN  [i \in 1..Len(prev) |->
         IF courtsWithoutPlayer[i].id # courtId THEN courtsWithoutPlayer[i]
         ELSE [courtsWithoutPlayer[i] EXCEPT
                 !.playerIds = [@ EXCEPT ![targetSlotIndex + 1] = playerId]]]

removePlayerFromCourt(prev, playerId) ==
  [i \in 1..Len(prev) |->
     IF prev[i].status = "playing" THEN prev[i]
     ELSE [prev[i] EXCEPT !.playerIds = RemoveId(@, playerId)]]

\* generateId(): an id no court has yet
NewCourtId(prev) ==
  CHOOSE n \in 1..(Len(prev) + 1) : \A i \in 1..Len(prev) : prev[i].id # n

\* addCourt's updater; the new court is named after its id (names are unique:
\* validateCourtName, App.tsx line 313)
addCourt(prev) == Append(prev, Court(NewCourtId(prev), "allocating", EmptySlots))

\* toggleCourtStatus starting a match on any court that is not empty
toggleCourtStatus_AnyCount(cs, courtId) ==
  LET k == FindCourt(cs, courtId)
  IN  IF k = 0 THEN [success |-> FALSE, needsWinnerSelection |-> FALSE, courts |-> cs]
      ELSE IF cs[k].status = "allocating"
      THEN IF Len(ValidPlayerIds(cs[k].playerIds)) = 0
           THEN [success |-> FALSE, needsWinnerSelection |-> FALSE, courts |-> cs]
           ELSE [success |-> TRUE, needsWinnerSelection |-> FALSE,
                 courts |-> [i \in 1..Len(cs) |->
                               IF cs[i].id = courtId
                               THEN [cs[i] EXCEPT !.status = "playing"] ELSE cs[i]]]
      ELSE [success |-> TRUE, needsWinnerSelection |-> TRUE, courts |-> cs]

\* toggleCourtStatus: what it returns, and the court list it sets
toggleCourtStatus(cs, courtId) ==
  LET k == FindCourt(cs, courtId)
  IN  IF k = 0 THEN [success |-> FALSE, needsWinnerSelection |-> FALSE, courts |-> cs]
      ELSE IF cs[k].status = "allocating"
      THEN IF Len(ValidPlayerIds(cs[k].playerIds)) # 4
           THEN [success |-> FALSE, needsWinnerSelection |-> FALSE, courts |-> cs]
           ELSE [success |-> TRUE, needsWinnerSelection |-> FALSE,
                 courts |-> [i \in 1..Len(cs) |->
                               IF cs[i].id = courtId
                               THEN [cs[i] EXCEPT !.status = "playing"] ELSE cs[i]]]
      ELSE [success |-> TRUE, needsWinnerSelection |-> TRUE, courts |-> cs]

resetCourt(prev, courtId) ==
  [i \in 1..Len(prev) |->
     IF prev[i].id # courtId THEN prev[i]
     ELSE [prev[i] EXCEPT !.status = "allocating", !.playerIds = EmptySlots]]

\* players.filter(p => p.isActive)
ActivePlayers(ps) == SelectSeq(ps, LAMBDA q : q.isActive)

\* shufflePlayers: the court list it sets when some player is active; js are the
\* draws of shuffleArray.  The k-th court that is not playing takes the shuffled
\* players 4k .. 4k + 3, as far as there are any.
shufflePlayers(ps, cs, js) ==
  LET shuffledPlayers == shuffleArray(ActivePlayers(ps), js).returned
      open == {i \in 1..Len(cs) : cs[i].status # "playing"}
      before(i) == Cardinality({j \in open : j < i})
  IN  [i \in 1..Len(cs) |->
         IF cs[i].status = "playing" THEN cs[i]
         ELSE [cs[i] EXCEPT !.playerIds =
                 [slot \in 1..4 |->
                    IF 4 * before(i) + slot <= Len(shuffledPlayers)
                    THEN shuffledPlayers[4 * before(i) + slot].id
                    ELSE NULL]]]

clearAllCourts(prev) ==
  [i \in 1..Len(prev) |->
     IF prev[i].status = "playing" THEN prev[i]
     ELSE [prev[i] EXCEPT !.status = "allocating", !.playerIds = EmptySlots]]

\* the setCourts updater shared by togglePlayerStatus and deletePlayer: the id
\* leaves every court, playing or not
RemoveFromAllCourts(prev, id) ==
  [i \in 1..Len(prev) |-> [prev[i] EXCEPT !.playerIds = RemoveId(@, id)]]

\* togglePlayerStatus's setPlayers updater
togglePlayerStatus(prev, id) ==
  [i \in 1..Len(prev) |->
     IF prev[i].id = id THEN [prev[i] EXCEPT !.isActive = ~@] ELSE prev[i]]

\* deletePlayer's setPlayers updater
deletePlayer(prev, id) == SelectSeq(prev, LAMBDA q : q.id # id)

\* a MatchRecord of the application history
MatchRecord(court, names, time, res) ==
  [courtName |-> court, playerNames |-> names, timestamp |-> time, result |-> res]

\* a RoundRecord; generateId() gives it an id no other round has
RoundRecord(number, time, ms) ==
  [id |-> number, roundNumber |-> number, timestamp |-> time, matches |-> ms]

\* lastRound.matches.some(...): playerNames.join(',') of two name lists are equal
\* exactly when the lists are (names hold no comma)
IsDuplicate(lastRound, newMatch) ==
  \E k \in 1..Len(lastRound.matches) :
    /\ lastRound.matches[k].courtName = newMatch.courtName
    /\ lastRound.matches[k].playerNames = newMatch.playerNames

\* recordMatchStart taking a match that starts exactly one window after the last
\* round's creation into that round
recordMatchStart_WindowInclusive(ps, cs, prev, courtId, timestamp) ==
  LET k == FindCourt(cs, courtId)
      ids == ValidPlayerIds(cs[k].playerIds)
      playerNames == [j \in 1..Len(ids) |-> NameOf(ps, ids[j])]
      newMatch == MatchRecord(cs[k].name, playerNames, timestamp, NoResult)
      n == Len(prev)
  IN  IF k = 0 THEN prev
      ELSE IF n > 0 /\ timestamp - prev[n].timestamp <= GROUP_WINDOW_MS
      THEN IF IsDuplicate(prev[n], newMatch) THEN prev
           ELSE [prev EXCEPT ![n].matches = Append(@, newMatch)]
      ELSE Append(prev, RoundRecord(n + 1, timestamp, <<newMatch>>))

\* recordMatchStart: the rounds its setRounds updater returns
recordMatchStart(ps, cs, prev, courtId, timestamp) ==
  LET k == FindCourt(cs, courtId)
      ids == ValidPlayerIds(cs[k].playerIds)
      playerNames == [j \in 1..Len(ids) |-> NameOf(ps, ids[j])]
      newMatch == MatchRecord(cs[k].name, playerNames, timestamp, NoResult)
      n == Len(prev)
  IN  IF k = 0 THEN prev
      ELSE IF n > 0 /\ timestamp - prev[n].timestamp < GROUP_WINDOW_MS
      THEN IF IsDuplicate(prev[n], newMatch) THEN prev
           ELSE [prev EXCEPT ![n].matches = Append(@, newMatch)]
      ELSE Append(prev, RoundRecord(n + 1, timestamp, <<newMatch>>))

\* matches.findIndex(m => m.courtName === court.name && !m.result), 0 for -1
OpenMatchIndex(round, courtName) ==
  LET open == {k \in 1..Len(round.matches) :
                 /\ round.matches[k].courtName = courtName
                 /\ round.matches[k].result = NoResult}
  IN  IF open = {} THEN 0 ELSE CHOOSE k \in open : \A j \in open : k <= j

\* recordMatchResult: the rounds are scanned from the last to the first, and the
\* first open match of the court found takes the result ('none' leaves it undefined)
recordMatchResult(cs, prev, courtId, winner) ==
  LET k == FindCourt(cs, courtId)
      hits == {i \in 1..Len(prev) : OpenMatchIndex(prev[i], cs[k].name) # 0}
      i == CHOOSE r \in hits : \A q \in hits : q <= r
  IN  IF k = 0 \/ hits = {} THEN prev
      ELSE [prev EXCEPT ![i].matches[OpenMatchIndex(prev[i], cs[k].name)].result =
                           IF winner = "none" THEN NoResult ELSE winner]

(* ------------------------- the application ---------------------------- *)

CourtIds == {appCourts[i].id : i \in 1..Len(appCourts)}

RosterIds == {appPlayers[i].id : i \in 1..Len(appPlayers)}

\* the clock readings told apart: around each multiple of the grouping window
ClockValues ==
  {t \in UNION {{w * GROUP_WINDOW_MS - 1, w * GROUP_WINDOW_MS, w * GROUP_WINDOW_MS + 1} :
                  w \in 0..MaxWindows} : t >= 0}

\* the winners the finish dialog offers
Winners == {"teamA", "teamB", "none"}

\* one more operation may run
Step == opCount < MaxOps /\ opCount' = opCount + 1

AddCourt ==
  /\ Step
  /\ Len(appCourts) < MaxAppCourts
  /\ appCourts' = addCourt(appCourts)
  /\ UNCHANGED <<appPlayers, appRounds, now, starts>>
  /\ UNCHANGED <<engineVars, statsRecord, shuffleVars, setVars, uiVars, undoVars>>

\* handleSlotClick, handlePickPlayer, handleDropPlayer and handleCourtClick
AddPlayerToCourt ==
  /\ Step
  /\ \E courtId \in CourtIds, playerId \in RosterIds, targetSlotIndex \in 0..3 :
       appCourts' = addPlayerToCourt(appCourts, courtId, playerId, targetSlotIndex)
  /\ UNCHANGED <<appPlayers, appRounds, now, starts>>
  /\ UNCHANGED <<engineVars, statsRecord, shuffleVars, setVars, uiVars, undoVars>>

RemovePlayerFromCourt ==
  /\ Step
  /\ \E playerId \in RosterIds : appCourts' = removePlayerFromCourt(appCourts, playerId)
  /\ UNCHANGED <<appPlayers, appRounds, now, starts>>
  /\ UNCHANGED <<engineVars, statsRecord, shuffleVars, setVars, uiVars, undoVars>>

\* handleToggleCourtStatus: toggleCourtStatus, then recordMatchStart when a match
\* started; on a playing court it only opens the finish dialog.  recordMatchStart
\* reads the clock: timestamp is any reading not before the last one.
HandleToggleCourtStatusOn(courtId) ==
  /\ Step
  /\ LET toggled == toggleCourtStatus(appCourts, courtId)
     IN  IF toggled.success /\ ~toggled.needsWinnerSelection
         THEN \E timestamp \in {t \in ClockValues : t >= now} :
                /\ appCourts' = toggled.courts
                /\ appRounds' = recordMatchStart(appPlayers, appCourts, appRounds,
                                                 courtId, timestamp)
                /\ now' = timestamp
                /\ starts' = starts + 1
         ELSE UNCHANGED <<appCourts, appRounds, now, starts>>
  /\ UNCHANGED appPlayers
  /\ UNCHANGED <<engineVars, statsRecord, shuffleVars, setVars, uiVars, undoVars>>

\* the start button of any court
HandleToggleCourtStatus == \E courtId \in CourtIds : HandleToggleCourtStatusOn(courtId)

\* handleGameFinish on the court whose finish dialog is open
HandleGameFinishOn(courtId, winner) ==
  /\ Step
  /\ appCourts[FindCourt(appCourts, courtId)].status = "playing"
  /\ appRounds' = recordMatchResult(appCourts, appRounds, courtId, winner)
  /\ appCourts' = resetCourt(appCourts, courtId)
  /\ UNCHANGED <<appPlayers, now, starts>>
  /\ UNCHANGED <<engineVars, statsRecord, shuffleVars, setVars, uiVars, undoVars>>

\* the finish dialog of any playing court, closed with any of its buttons
HandleGameFinish ==
  \E courtId \in CourtIds, winner \in Winners : HandleGameFinishOn(courtId, winner)

ShufflePlayers ==
  /\ Step
  /\ IF ActivePlayers(appPlayers) = <<>> THEN UNCHANGED appCourts
     ELSE \E js \in ShuffleDraws(Len(ActivePlayers(appPlayers))) :
            appCourts' = shufflePlayers(appPlayers, appCourts, js)
  /\ UNCHANGED <<appPlayers, appRounds, now, starts>>
  /\ selectedPlayerId' = NULL
  /\ UNCHANGED pickerTarget
  /\ UNCHANGED <<engineVars, statsRecord, shuffleVars, setVars, undoVars>>

\* smartAllocate of useCourtManagement
SmartAllocateCourts ==
  /\ Step
  /\ \E draws \in AllDraws(appPlayers, appCourts) :
       appCourts' = smartAllocation(appPlayers, appCourts, appRounds, draws)
  /\ UNCHANGED <<appPlayers, appRounds, now, starts>>
  /\ selectedPlayerId' = NULL
  /\ UNCHANGED pickerTarget
  /\ UNCHANGED <<engineVars, statsRecord, shuffleVars, setVars, undoVars>>

ClearAllCourts ==
  /\ Step
  /\ appCourts' = clearAllCourts(appCourts)
  /\ UNCHANGED <<appPlayers, appRounds, now, starts>>
  /\ selectedPlayerId' = NULL
  /\ UNCHANGED pickerTarget
  /\ UNCHANGED <<engineVars, statsRecord, shuffleVars, setVars, undoVars>>

TogglePlayerStatus ==
  /\ Step
  /\ \E id \in RosterIds :
       /\ appPlayers' = togglePlayerStatus(appPlayers, id)
       /\ appCourts' = RemoveFromAllCourts(appCourts, id)
  /\ UNCHANGED <<appRounds, now, starts>>
  /\ UNCHANGED <<engineVars, statsRecord, shuffleVars, setVars, uiVars, undoVars>>

DeletePlayer ==
  /\ Step
  /\ \E id \in RosterIds :
       /\ appPlayers' = deletePlayer(appPlayers, id)
       /\ appCourts' = RemoveFromAllCourts(appCourts, id)
  /\ UNCHANGED <<appRounds, now, starts>>
  /\ UNCHANGED <<engineVars, statsRecord, shuffleVars, setVars, uiVars, undoVars>>

\* what court 1 may hold: nothing, four players in two orders, two players, or a
\* match under way
SeatChoices ==
  {Court(1, "allocating", EmptySlots),
   Court(1, "allocating", Lineup(1)),
   Court(1, "allocating", <<2, 1, 3, 4>>),
   Court(1, "allocating", <<1, NULL, 2, NULL>>),
   Court(1, "playing", Lineup(1))}

\* a match of players 1 to 4 on court 1, started at time 0
FirstMatch(res) == MatchRecord(1, Lineup(1), 0, res)

\* The application at time 0, as it starts or after a first match of players 1 to
\* 4 on court 1: four active players and a fifth who is absent; court 1, and maybe
\* an empty court 2; the history holds the match under way, or a first match that
\* was finished with a winner or without one ('none' leaves its result undefined),
\* or nothing.
AppStart ==
  /\ appPlayers = [i \in 1..(CourtSize + 1) |-> Player(i, i, i <= CourtSize, PoolLevel(i))]
  /\ \E first \in SeatChoices, second \in BOOLEAN, played \in {"no", "teamA", NoResult} :
       /\ appCourts = IF second THEN <<first, Court(2, "allocating", EmptySlots)>>
                                ELSE <<first>>
       /\ first.status = "playing" => played = "no"
       /\ appRounds = IF first.status = "playing"
                      THEN <<RoundRecord(1, 0, <<FirstMatch(NoResult)>>)>>
                      ELSE IF played # "no" THEN <<RoundRecord(1, 0, <<FirstMatch(played)>>)>>
                      ELSE <<>>
       /\ starts = IF first.status = "playing" \/ played # "no" THEN 1 ELSE 0
  /\ now = 0
  /\ opCount = 0

InitApp ==
  /\ AppStart
  /\ EngineIdle
  /\ ShuffleIdle
  /\ SetsIdle
  /\ UIIdle
  /\ UndoIdle

NextApp ==
  \/ AddCourt
  \/ AddPlayerToCourt
  \/ RemovePlayerFromCourt
  \/ HandleToggleCourtStatus
  \/ HandleGameFinish
  \/ ShufflePlayers
  \/ SmartAllocateCourts
  \/ ClearAllCourts
  \/ TogglePlayerStatus
  \/ DeletePlayer

SpecApp == InitApp /\ [][NextApp]_vars

(* ------------------------- the user interface ------------------------- *)

\* ids of the courts that are not playing: CourtCard passes clicks and drops on
\* these only (CourtCard.tsx lines 73, 96, 301)
OpenCourtIds ==
  {appCourts[i].id : i \in {k \in 1..Len(appCourts) : appCourts[k].status # "playing"}}

\* ids of the active players: PlayerList lets these be clicked and dragged
ActiveIds ==
  {appPlayers[i].id : i \in {k \in 1..Len(appPlayers) : appPlayers[k].isActive}}

\* ids seated on courts that are not playing: CourtCard lets these be clicked
SeatedOnOpenCourts ==
  UNION {{appCourts[i].playerIds[j] : j \in 1..Len(appCourts[i].playerIds)} \ {NULL} :
           i \in {k \in 1..Len(appCourts) : appCourts[k].status # "playing"}}

\* courts.find(c => c.playerIds.includes(id)) is a playing court
FirstCourtIsPlaying(cs, id) ==
  /\ \E i \in 1..Len(cs) : Includes(cs[i].playerIds, id)
  /\ cs[CHOOSE i \in 1..Len(cs) :
          /\ Includes(cs[i].playerIds, id)
          /\ \A j \in 1..Len(cs) : Includes(cs[j].playerIds, id) => i <= j].status = "playing"

\* availablePlayers of PlayerPickerModal (the name filter left empty)
AvailableToPick ==
  {id \in ActiveIds : ~FirstCourtIsPlaying(appCourts, id)}

\* playerIds.indexOf(null)
IndexOfNull(ids) ==
  IF \E j \in 1..Len(ids) : ids[j] = NULL
  THEN (CHOOSE j \in 1..Len(ids) :
          ids[j] = NULL /\ \A q \in 1..Len(ids) : ids[q] = NULL => j <= q) - 1
  ELSE -1

\* the player picker is closed: its modal covers the rest of the page when open
PickerClosed == pickerTarget = NoTarget

\* handlePlayerClick, from the player list or from a seat of a court
HandlePlayerClick ==
  /\ Step
  /\ PickerClosed
  /\ \E id \in ActiveIds \cup SeatedOnOpenCourts :
       selectedPlayerId' = IF selectedPlayerId = id THEN NULL ELSE id
  /\ UNCHANGED <<appPlayers, appCourts, appRounds, now, starts, pickerTarget>>
  /\ UNCHANGED <<engineVars, statsRecord, shuffleVars, setVars, undoVars>>

\* handleCourtClick
HandleCourtClickOn(targetCourtId) ==
  /\ Step
  /\ PickerClosed
  /\ targetCourtId \in OpenCourtIds
  /\ LET emptyIndex == IndexOfNull(appCourts[FindCourt(appCourts, targetCourtId)].playerIds)
     IN  IF selectedPlayerId # NULL /\ emptyIndex # -1
         THEN /\ appCourts' = addPlayerToCourt(appCourts, targetCourtId,
                                               selectedPlayerId, emptyIndex)
              /\ selectedPlayerId' = NULL
         ELSE UNCHANGED <<appCourts, selectedPlayerId>>
  /\ UNCHANGED <<appPlayers, appRounds, now, starts, pickerTarget>>
  /\ UNCHANGED <<engineVars, statsRecord, shuffleVars, setVars, undoVars>>

HandleCourtClick == \E targetCourtId \in CourtIds : HandleCourtClickOn(targetCourtId)

\* handleSlotClick, on an empty slot of a court that is not playing
HandleSlotClickOn(courtId, slotIndex) ==
  /\ Step
  /\ PickerClosed
  /\ courtId \in OpenCourtIds
  /\ appCourts[FindCourt(appCourts, courtId)].playerIds[slotIndex + 1] = NULL
  /\ IF selectedPlayerId # NULL
     THEN /\ appCourts' = addPlayerToCourt(appCourts, courtId, selectedPlayerId, slotIndex)
          /\ selectedPlayerId' = NULL
          /\ UNCHANGED pickerTarget
     ELSE /\ pickerTarget' = <<courtId, slotIndex>>
          /\ UNCHANGED <<appCourts, selectedPlayerId>>
  /\ UNCHANGED <<appPlayers, appRounds, now, starts>>
  /\ UNCHANGED <<engineVars, statsRecord, shuffleVars, setVars, undoVars>>

HandleSlotClick ==
  \E courtId \in CourtIds, slotIndex \in 0..(CourtSize - 1) :
    HandleSlotClickOn(courtId, slotIndex)

\* handlePickPlayer, on a player the picker lists
HandlePickPlayerOn(playerId) ==
  /\ Step
  /\ pickerTarget # NoTarget
  /\ playerId \in AvailableToPick
  /\ appCourts' = addPlayerToCourt(appCourts, pickerTarget[1], playerId, pickerTarget[2])
  /\ pickerTarget' = NoTarget
  /\ UNCHANGED <<appPlayers, appRounds, now, starts, selectedPlayerId>>
  /\ UNCHANGED <<engineVars, statsRecord, shuffleVars, setVars, undoVars>>

HandlePickPlayer == \E playerId \in RosterIds : HandlePickPlayerOn(playerId)

\* closePlayerPicker
ClosePlayerPicker ==
  /\ Step
  /\ pickerTarget # NoTarget
  /\ pickerTarget' = NoTarget
  /\ UNCHANGED <<appPlayers, appCourts, appRounds, now, starts, selectedPlayerId>>
  /\ UNCHANGED <<engineVars, statsRecord, shuffleVars, setVars, undoVars>>

\* handleDropPlayer: a row of the player list dropped on a slot
HandleDropPlayerOn(targetCourtId, playerId, slotIndex) ==
  /\ Step
  /\ PickerClosed
  /\ targetCourtId \in OpenCourtIds
  /\ playerId \in ActiveIds
  /\ appCourts' = addPlayerToCourt(appCourts, targetCourtId, playerId, slotIndex)
  /\ UNCHANGED <<appPlayers, appRounds, now, starts>>
  /\ UNCHANGED uiVars
  /\ UNCHANGED <<engineVars, statsRecord, shuffleVars, setVars, undoVars>>

HandleDropPlayer ==
  \E targetCourtId \in CourtIds, playerId \in RosterIds, slotIndex \in 0..(CourtSize - 1) :
    HandleDropPlayerOn(targetCourtId, playerId, slotIndex)

\* handleRemoveFromCourt: the remove button of a seat, shown on courts that are not
\* playing for players who are not selected (CourtCard.tsx line 159)
HandleRemoveFromCourt ==
  /\ Step
  /\ \E playerId \in SeatedOnOpenCourts \ {selectedPlayerId} :
       appCourts' = removePlayerFromCourt(appCourts, playerId)
  /\ UNCHANGED <<appPlayers, appRounds, now, starts>>
  /\ UNCHANGED uiVars
  /\ UNCHANGED <<engineVars, statsRecord, shuffleVars, setVars, undoVars>>

\* The application with two courts, court 1 empty, half filled or with the first
\* match under way, and no player or one of the active players selected.
InitUI ==
  /\ appPlayers = [i \in 1..(CourtSize + 1) |-> Player(i, i, i <= CourtSize, PoolLevel(i))]
  /\ \E first \in {Court(1, "allocating", EmptySlots),
                    Court(1, "allocating", <<1, NULL, 2, NULL>>),
                    Court(1, "playing", Lineup(1))} :
       /\ appCourts = <<first, Court(2, "allocating", EmptySlots)>>
       /\ appRounds = IF first.status = "playing"
                      THEN <<RoundRecord(1, 0, <<FirstMatch(NoResult)>>)>>
                      ELSE <<>>
       /\ starts = IF first.status = "playing" THEN 1 ELSE 0
  /\ now = 0
  /\ opCount = 0
  /\ selectedPlayerId \in {NULL} \cup ActiveIds
  /\ pickerTarget = NoTarget
  /\ EngineIdle
  /\ ShuffleIdle
  /\ SetsIdle
  /\ UndoIdle

NextUI ==
  \/ HandlePlayerClick
  \/ HandleCourtClick
  \/ HandleSlotClick
  \/ HandlePickPlayer
  \/ ClosePlayerPicker
  \/ HandleDropPlayer
  \/ PickerClosed /\ HandleRemoveFromCourt
  \/ PickerClosed /\ HandleToggleCourtStatus
  \/ PickerClosed /\ HandleGameFinish
  \/ PickerClosed /\ ShufflePlayers
  \/ PickerClosed /\ SmartAllocateCourts
  \/ PickerClosed /\ ClearAllCourts
  \/ PickerClosed /\ TogglePlayerStatus
  \/ PickerClosed /\ DeletePlayer

SpecUI == InitUI /\ [][NextUI]_vars

(* ----------------- cycles of allocate, start and finish --------------- *)

\* levels of the players of the cycles, best first but for two pairs of equals
CycleLevels == <<6, 5, 5, 4, 3, 2, 2, 1>>

\* the clock readings of the cycles: the multiples of the grouping window
CycleClock == {w * GROUP_WINDOW_MS : w \in 0..MaxWindows}

\* every court is open and empty: no cycle is under way
CycleComplete ==
  \A i \in 1..Len(appCourts) :
    appCourts[i].status = "allocating" /\ appCourts[i].playerIds = EmptySlots

\* A fresh application with a fixed roster of active players with distinct names:
\* four or five players and one court, or eight players and two courts.
InitCycle ==
  /\ \E n \in {CourtSize, CourtSize + 1, 2 * CourtSize} :
       /\ appPlayers = [i \in 1..n |-> Player(i, i, TRUE, CycleLevels[i])]
       /\ appCourts = [j \in 1..(n \div CourtSize) |-> Court(j, "allocating", EmptySlots)]
  /\ appRounds = <<>>
  /\ now = 0
  /\ starts = 0
  /\ opCount = 0
  /\ EngineIdle
  /\ ShuffleIdle
  /\ SetsIdle
  /\ UIIdle
  /\ UndoIdle

\* smartAllocate, once the courts of the cycle before are finished
CycleAllocate ==
  /\ CycleComplete
  /\ starts < MaxStarts
  /\ \E draws \in AllDraws(appPlayers, appCourts) :
       appCourts' = smartAllocation(appPlayers, appCourts, appRounds, draws)
  /\ UNCHANGED <<appPlayers, appRounds, now, starts, opCount>>
  /\ UNCHANGED <<engineVars, statsRecord, shuffleVars, setVars, uiVars, undoVars>>

\* handleToggleCourtStatus on a filled court
CycleStart ==
  /\ \E courtId \in CourtIds :
       LET toggled == toggleCourtStatus(appCourts, courtId)
       IN  /\ toggled.success /\ ~toggled.needsWinnerSelection
           /\ \E timestamp \in {t \in CycleClock : t >= now} :
                /\ appCourts' = toggled.courts
                /\ appRounds' = recordMatchStart(appPlayers, appCourts, appRounds,
                                                 courtId, timestamp)
                /\ now' = timestamp
                /\ starts' = starts + 1
  /\ UNCHANGED <<appPlayers, opCount>>
  /\ UNCHANGED <<engineVars, statsRecord, shuffleVars, setVars, uiVars, undoVars>>

\* handleGameFinish on a playing court, once every filled court has started; the
\* winner is team A every time (the played counts do not read the result)
CycleFinish ==
  /\ \A i \in 1..Len(appCourts) :
       appCourts[i].status = "playing" \/ appCourts[i].playerIds = EmptySlots
  /\ \E courtId \in CourtIds :
       /\ appCourts[FindCourt(appCourts, courtId)].status = "playing"
       /\ appRounds' = recordMatchResult(appCourts, appRounds, courtId, "teamA")
       /\ appCourts' = resetCourt(appCourts, courtId)
  /\ UNCHANGED <<appPlayers, now, starts, opCount>>
  /\ UNCHANGED <<engineVars, statsRecord, shuffleVars, setVars, uiVars, undoVars>>

NextCycle == CycleAllocate \/ CycleStart \/ CycleFinish

SpecCycle == InitCycle /\ [][NextCycle]_vars

(* -------------------------- arePlayerSetsEqual ------------------------ *)

\* ids.filter(Boolean): null goes (and so would '', which generateId never gives)
FilterBoolean(ids) == SelectSeq(ids, LAMBDA pid : pid # NULL)

\* arePlayerSetsEqual: the lengths of the filtered lists are compared, then every
\* element of validB is looked up in new Set(validA)
arePlayerSetsEqual(a, b) ==
  LET validA == FilterBoolean(a)
      validB == FilterBoolean(b)
      setA == {validA[k] : k \in 1..Len(validA)}
  IN  IF Len(validA) # Len(validB) THEN FALSE
      ELSE \A k \in 1..Len(validB) : validB[k] \in setA

\* every (string | null)[] of up to MaxIdsLen slots over the ids 1..MaxId
IdLists == UNION {[1..n -> 0..MaxId] : n \in 0..MaxIdsLen}

InitSets ==
  /\ idsA \in IdLists
  /\ idsB \in IdLists
  /\ setsEqual = <<>>
  /\ EngineIdle
  /\ ShuffleIdle
  /\ AppIdle
  /\ UIIdle
  /\ UndoIdle

\* the function called on the two lists, in both orders
ArePlayerSetsEqual ==
  /\ setsEqual = <<>>
  /\ setsEqual' = <<arePlayerSetsEqual(idsA, idsB), arePlayerSetsEqual(idsB, idsA)>>
  /\ UNCHANGED <<idsA, idsB>>
  /\ UNCHANGED <<engineVars, statsRecord, shuffleVars, appVars, uiVars, undoVars>>

NextSets == ArePlayerSetsEqual

SpecSets == InitSets /\ [][NextSets]_vars

(* ------------------------------ undo hooks ---------------------------- *)

\* seq.slice(-n)
LastN(seq, n) == IF Len(seq) > n THEN SubSeq(seq, Len(seq) - n + 1, Len(seq)) ELSE seq

\* seq.slice(0, n)
FirstN(seq, n) == IF Len(seq) > n THEN SubSeq(seq, 1, n) ELSE seq

\* useLocalStorageWithUndo after the load effect: undoState, the refs (timeoutRef is
\* TRUE while a debounce timer is pending; pendingValueRef and storage are <<>> for
\* null and for no item) and the item of localStorage
Hook(value, stored) ==
  [past |-> <<>>, present |-> value, future |-> <<>>,
   isUndoRedoRef |-> FALSE, pendingValueRef |-> <<>>, timeoutRef |-> FALSE,
   storage |-> stored]

\* setValue keeping every past state
setValue_NoLimit(h, newPresent) ==
  LET scheduled == [h EXCEPT !.pendingValueRef = <<newPresent>>, !.timeoutRef = TRUE]
  IN  IF h.isUndoRedoRef
      THEN [scheduled EXCEPT !.isUndoRedoRef = FALSE, !.present = newPresent]
      ELSE IF h.present = newPresent THEN scheduled
      ELSE [scheduled EXCEPT !.past = Append(h.past, h.present),
                             !.present = newPresent,
                             !.future = <<>>]

\* setValue's updater on newPresent = value(current.present): the save is scheduled
\* (the pending timer, if any, is replaced), then the history is recorded unless
\* isUndoRedoRef is set or the JSON of the state is what it was
setValue(h, newPresent) ==
  LET scheduled == [h EXCEPT !.pendingValueRef = <<newPresent>>, !.timeoutRef = TRUE]
  IN  IF h.isUndoRedoRef
      THEN [scheduled EXCEPT !.isUndoRedoRef = FALSE, !.present = newPresent]
      ELSE IF h.present = newPresent THEN scheduled
      ELSE [scheduled EXCEPT !.past = LastN(Append(h.past, h.present), MaxHistory),
                             !.present = newPresent,
                             !.future = <<>>]

\* undo's updater; saveToStorage(previous) writes at once and leaves the timer and
\* pendingValueRef as they are
undo(h) ==
  IF Len(h.past) = 0 THEN h
  ELSE [h EXCEPT !.past = SubSeq(h.past, 1, Len(h.past) - 1),
                 !.present = h.past[Len(h.past)],
                 !.future = FirstN(<<h.present>> \o h.future, MaxHistory),
                 !.isUndoRedoRef = TRUE,
                 !.storage = <<h.past[Len(h.past)]>>]

\* redo's updater
redo(h) ==
  IF Len(h.future) = 0 THEN h
  ELSE [h EXCEPT !.past = LastN(Append(h.past, h.present), MaxHistory),
                 !.present = h.future[1],
                 !.future = Tail(h.future),
                 !.isUndoRedoRef = TRUE,
                 !.storage = <<h.future[1]>>]

\* the setTimeout callback: saveToStorage(pendingValueRef.current) unless it is null
timerCallback(h) ==
  [h EXCEPT !.timeoutRef = FALSE,
            !.storage = IF h.pendingValueRef # <<>> THEN h.pendingValueRef ELSE @]

\* useUndoRedo's state and skipRecordRef
Plain(value) ==
  [past |-> <<>>, present |-> value, future |-> <<>>, skipRecordRef |-> FALSE]

\* useUndoRedo's set
useUndoRedo_set(u, nextPresent) ==
  IF u.skipRecordRef THEN [u EXCEPT !.skipRecordRef = FALSE, !.present = nextPresent]
  ELSE IF u.present = nextPresent THEN u
  ELSE [u EXCEPT !.past = LastN(Append(u.past, u.present), MaxHistory),
                 !.present = nextPresent,
                 !.future = <<>>]

\* useUndoRedo's undo
useUndoRedo_undo(u) ==
  IF Len(u.past) = 0 THEN u
  ELSE [u EXCEPT !.past = SubSeq(u.past, 1, Len(u.past) - 1),
                 !.present = u.past[Len(u.past)],
                 !.future = <<u.present>> \o u.future,
                 !.skipRecordRef = TRUE]

\* useUndoRedo's redo
useUndoRedo_redo(u) ==
  IF Len(u.future) = 0 THEN u
  ELSE [u EXCEPT !.past = Append(u.past, u.present),
                 !.present = u.future[1],
                 !.future = Tail(u.future),
                 !.skipRecordRef = TRUE]

\* the states a hook holds: 0 is the initial value
Values == 0..MaxValue

\* Both hooks with the initial value 0; localStorage holds no item, or the value
\* the load effect has read
InitUndo ==
  /\ \E stored \in {<<>>, <<0>>} : hook = Hook(0, stored)
  /\ plain = Plain(0)
  /\ preStart = <<>>
  /\ EngineIdle
  /\ ShuffleIdle
  /\ AppIdle
  /\ SetsIdle
  /\ UIIdle

\* setState(value) of useLocalStorageWithUndo and set(value) of useUndoRedo
SetStateTo(value) ==
  /\ hook' = setValue(hook, value)
  /\ plain' = useUndoRedo_set(plain, value)
  /\ UNCHANGED preStart
  /\ UNCHANGED <<engineVars, statsRecord, shuffleVars, appVars, setVars, uiVars>>

SetState == \E value \in Values : SetStateTo(value)

\* undo() of both hooks
Undo ==
  /\ hook' = undo(hook)
  /\ plain' = useUndoRedo_undo(plain)
  /\ UNCHANGED preStart
  /\ UNCHANGED <<engineVars, statsRecord, shuffleVars, appVars, setVars, uiVars>>

\* redo() of both hooks
Redo ==
  /\ hook' = redo(hook)
  /\ plain' = useUndoRedo_redo(plain)
  /\ UNCHANGED preStart
  /\ UNCHANGED <<engineVars, statsRecord, shuffleVars, appVars, setVars, uiVars>>

\* the pending debounce timer expires
TimerFires ==
  /\ hook.timeoutRef
  /\ hook' = timerCallback(hook)
  /\ UNCHANGED <<plain, preStart>>
  /\ UNCHANGED <<engineVars, statsRecord, shuffleVars, appVars, setVars, uiVars>>

NextUndo == SetState \/ Undo \/ Redo \/ TimerFires

SpecUndo == InitUndo /\ [][NextUndo]_vars

(* ------------------ the application state in the hook ----------------- *)

\* an AppState
AppState(ps, cs, rs) == [players |-> ps, courts |-> cs, rounds |-> rs]

\* appState is the present of the hook: players, courts and rounds are read from it
PresentIs(h) ==
  /\ appPlayers' = h.present.players
  /\ appCourts' = h.present.courts
  /\ appRounds' = h.present.rounds

\* App's setCourts(updater result): setAppState(prev => ({...prev, courts}))
setCourts(h, cs) == setValue(h, [h.present EXCEPT !.courts = cs])

\* App's setRounds
setRounds(h, rs) == setValue(h, [h.present EXCEPT !.rounds = rs])

\* handleToggleCourtStatus starting a match: toggleCourtStatus calls setCourts, then
\* recordMatchStart calls setRounds, each through setValue
StartMatch ==
  /\ Step
  /\ \E courtId \in CourtIds :
       LET toggled == toggleCourtStatus(appCourts, courtId)
       IN  /\ toggled.success /\ ~toggled.needsWinnerSelection
           /\ \E timestamp \in {t \in ClockValues : t >= now} :
                LET afterCourts == setCourts(hook, toggled.courts)
                    afterRounds ==
                      setRounds(afterCourts,
                                recordMatchStart(appPlayers, appCourts,
                                                 afterCourts.present.rounds,
                                                 courtId, timestamp))
                IN  /\ hook' = afterRounds
                    /\ PresentIs(afterRounds)
                    /\ now' = timestamp
                    /\ starts' = starts + 1
  /\ preStart' = <<hook.present>>
  /\ UNCHANGED plain
  /\ UNCHANGED <<engineVars, statsRecord, shuffleVars, setVars, uiVars>>

\* handleGameFinish: recordMatchResult calls setRounds, then resetCourt calls setCourts
FinishMatch ==
  /\ Step
  /\ \E courtId \in CourtIds, winner \in Winners :
       /\ appCourts[FindCourt(appCourts, courtId)].status = "playing"
       /\ LET afterRounds ==
                setRounds(hook, recordMatchResult(appCourts, appRounds, courtId, winner))
              afterCourts ==
                setCourts(afterRounds, resetCourt(afterRounds.present.courts, courtId))
          IN  hook' = afterCourts /\ PresentIs(afterCourts)
  /\ preStart' = <<>>
  /\ UNCHANGED <<now, starts, plain>>
  /\ UNCHANGED <<engineVars, statsRecord, shuffleVars, setVars, uiVars>>

\* handleSmartAllocation: one setCourts
AllocateCourts ==
  /\ Step
  /\ \E draws \in AllDraws(appPlayers, appCourts) :
       LET afterCourts ==
             setCourts(hook, smartAllocation(appPlayers, appCourts, appRounds, draws))
       IN  hook' = afterCourts /\ PresentIs(afterCourts)
  /\ preStart' = <<>>
  /\ UNCHANGED <<now, starts, plain>>
  /\ UNCHANGED <<engineVars, statsRecord, shuffleVars, setVars, uiVars>>

\* the undo button (disabled while past is empty); undo and redo move along the
\* recorded states and are not counted as operations
AppUndo ==
  /\ Len(hook.past) > 0
  /\ hook' = undo(hook)
  /\ PresentIs(undo(hook))
  /\ preStart' = <<>>
  /\ UNCHANGED <<now, starts, opCount, plain>>
  /\ UNCHANGED <<engineVars, statsRecord, shuffleVars, setVars, uiVars>>

\* the redo button (disabled while future is empty)
AppRedo ==
  /\ Len(hook.future) > 0
  /\ hook' = redo(hook)
  /\ PresentIs(redo(hook))
  /\ preStart' = <<>>
  /\ UNCHANGED <<now, starts, opCount, plain>>
  /\ UNCHANGED <<engineVars, statsRecord, shuffleVars, setVars, uiVars>>

\* The application as it is after loading a stored state (see AppStart): the hook
\* holds it as present, with empty stacks, and localStorage holds it too.
InitAppUndo ==
  /\ AppStart
  /\ hook = Hook(AppState(appPlayers, appCourts, appRounds),
                 <<AppState(appPlayers, appCourts, appRounds)>>)
  /\ plain = <<>>
  /\ preStart = <<>>
  /\ EngineIdle
  /\ ShuffleIdle
  /\ SetsIdle
  /\ UIIdle

NextAppUndo ==
  \/ StartMatch
  \/ FinishMatch
  \/ AllocateCourts
  \/ AppUndo
  \/ AppRedo
  \/ TimerFires

SpecAppUndo == InitAppUndo /\ [][NextAppUndo]_vars

(* ------------------------ reading the outcome ------------------------- *)

Done == pc = "done"

InputPlaying == {i \in 1..Len(currentCourts) : currentCourts[i].status = "playing"}

InputAllocating == {i \in 1..Len(currentCourts) : currentCourts[i].status = "allocating"}

\* the occupied slots of a list of courts, as <<court position, slot position>>
Slots(courts, positions) ==
  {sl \in positions \X (1..4) :
     /\ sl[2] \in DOMAIN courts[sl[1]].playerIds
     /\ courts[sl[1]].playerIds[sl[2]] # NULL}

\* ids seated on the input's playing courts
LockedIds == {currentCourts[sl[1]].playerIds[sl[2]] : sl \in Slots(currentCourts, InputPlaying)}

\* roster positions of the players that are active and not on a playing court
Eligible ==
  LET locked == LockedIds
  IN  {i \in 1..Len(allPlayers) : allPlayers[i].isActive /\ allPlayers[i].id \notin locked}

OutputAllocating == {i \in 1..Len(result) : result[i].status = "allocating"}

\* ids seated on the output's allocating courts
SeatedIds == {result[sl[1]].playerIds[sl[2]] : sl \in Slots(result, OutputAllocating)}

Seated(i) ==
  \E sl \in Slots(result, OutputAllocating) : result[sl[1]].playerIds[sl[2]] = allPlayers[i].id

OccupiedCount(c) == Cardinality({j \in DOMAIN c.playerIds : c.playerIds[j] # NULL})

IsFull(c) == Len(c.playerIds) = 4 /\ OccupiedCount(c) = 4

\* min(open courts, floor(eligible / 4))
FillableCourts ==
  LET open == Cardinality(InputAllocating)
      full == Cardinality(Eligible) \div 4
  IN  IF open < full THEN open ELSE full

\* the position among the allocating courts, in input order, of court i
AllocRank(i) == Cardinality({j \in InputAllocating : j <= i})

\* the court at position r among the allocating courts
AllocAt(r) == CHOOSE i \in InputAllocating : AllocRank(i) = r

\* the matches of the history, as <<round position, match position>>
MatchesWith(name) ==
  {rm \in UNION {{<<r, m>> : m \in DOMAIN history[r].matches} : r \in 1..Len(history)} :
     \E k \in DOMAIN history[rm[1]].matches[rm[2]].playerNames :
       history[rm[1]].matches[rm[2]].playerNames[k] = name}

PlayedCountOf(i) == Cardinality(MatchesWith(allPlayers[i].name))

NeverPlayed(i) == MatchesWith(allPlayers[i].name) = {}

\* 999 for a player in no match, else rounds minus 0-based index of the last round played
RestRoundsOf(i) ==
  LET played == {rm[1] : rm \in MatchesWith(allPlayers[i].name)}
  IN  IF played = {} THEN NeverPlayedRest
      ELSE Len(history) - ((CHOOSE r \in played : \A q \in played : q <= r) - 1)

LevelOfId(id) == allPlayers[CHOOSE i \in 1..Len(allPlayers) : allPlayers[i].id = id].level

SlotLevel(c, j) == LevelOfId(c.playerIds[j])

(* ------------------------------ claims -------------------------------- *)

\* C1: every court that is 'playing' in the input is returned at the same position
\* with the same id, name, status and playerIds.
C1_PlayingCourtsUnchanged ==
  Done => /\ Len(result) = Len(currentCourts)
          /\ \A i \in InputPlaying :
               /\ result[i].id = currentCourts[i].id
               /\ result[i].name = currentCourts[i].name
               /\ result[i].status = "playing"
               /\ result[i].playerIds = currentCourts[i].playerIds

\* a playing court with four players stays while another court is filled
C1_Witness ==
  /\ Done
  /\ \E i \in InputPlaying, j \in OutputAllocating :
       /\ IsFull(currentCourts[i])
       /\ IsFull(result[j])
       /\ result[i] = currentCourts[i]

DistinctPlayerIds ==
  \A i, j \in 1..Len(allPlayers) : allPlayers[i].id = allPlayers[j].id => i = j

PlayingCourtsHoldNoIdTwice ==
  \A a, b \in Slots(currentCourts, InputPlaying) :
    currentCourts[a[1]].playerIds[a[2]] = currentCourts[b[1]].playerIds[b[2]] => a = b

\* C2: with distinct roster ids and no id twice on the input's playing courts, no
\* id occupies two slots of the returned courts, playing and allocating together.
C2_NoPlayerTwice ==
  (Done /\ DistinctPlayerIds /\ PlayingCourtsHoldNoIdTwice) =>
    \A a, b \in Slots(result, 1..Len(result)) :
      result[a[1]].playerIds[a[2]] = result[b[1]].playerIds[b[2]] => a = b

\* two courts are filled next to an occupied playing court
C2_Witness ==
  /\ Done /\ DistinctPlayerIds /\ PlayingCourtsHoldNoIdTwice
  /\ Cardinality({i \in OutputAllocating : IsFull(result[i])}) >= 2
  /\ \E i \in InputPlaying : IsFull(currentCourts[i])
  /\ LockedIds \cap {allPlayers[i].id : i \in 1..Len(allPlayers)} # {}

\* C3: no slot of a returned allocating court holds an inactive player or a player
\* seated on a playing court of the input.
C3_OnlyEligibleSeated ==
  Done => LET locked == LockedIds IN
          \A id \in SeatedIds :
            /\ id \notin locked
            /\ \A i \in 1..Len(allPlayers) : allPlayers[i].id = id => allPlayers[i].isActive

\* a court is filled although a locked player sat on an allocating court in the
\* input and a player is inactive
C3_Witness ==
  /\ Done
  /\ \E i \in OutputAllocating : IsFull(result[i])
  /\ \E i \in 1..Len(allPlayers) : ~allPlayers[i].isActive
  /\ \E sl \in Slots(currentCourts, InputAllocating) :
       /\ currentCourts[sl[1]].playerIds[sl[2]] \in LockedIds
       /\ IsFull(result[sl[1]])

\* C4: every returned allocating court has 4 slots, all occupied or all empty.
C4_FullOrEmpty ==
  Done => \A i \in OutputAllocating :
            /\ Len(result[i].playerIds) = 4
            /\ OccupiedCount(result[i]) \in {0, 4}

\* the eligible players do not divide by four: one court full, one left empty
C4_Witness ==
  /\ Done
  /\ Cardinality(Eligible) % 4 # 0
  /\ \E i, j \in OutputAllocating :
       OccupiedCount(result[i]) = 4 /\ OccupiedCount(result[j]) = 0

\* C5: the number of returned allocating courts with 4 occupied slots is
\* min(input allocating courts, floor(E / 4)), E the active players not on a
\* playing court.
C5_CapacityLaw ==
  Done => Cardinality({i \in OutputAllocating : OccupiedCount(result[i]) = 4}) = FillableCourts

\* the players, not the courts, limit the number: two of three open courts filled
C5_Witness ==
  /\ Done
  /\ FillableCourts = 2
  /\ Cardinality(InputAllocating) = 3
  /\ Cardinality({i \in OutputAllocating : OccupiedCount(result[i]) = 4}) = 2

\* C6: a seated player has played at most as many matches as any eligible player
\* left unseated.
C6_LeastPlayedFirst ==
  Done => LET seated == {s \in Eligible : Seated(s)} IN
          \A s \in seated, u \in Eligible \ seated : PlayedCountOf(s) <= PlayedCountOf(u)

\* somebody who played more is left out
C6_Witness ==
  /\ Done
  /\ \E s, u \in Eligible :
       Seated(s) /\ ~Seated(u) /\ PlayedCountOf(s) < PlayedCountOf(u)

\* C7: between a seated and an unseated eligible player with equal playedCount the
\* seated one has rested at least as long, and nobody who never played is left
\* out while somebody who played is seated.
C7_MostRestedFirst ==
  Done => LET seated == {s \in Eligible : Seated(s)} IN
          \A s \in seated, u \in Eligible \ seated :
            /\ PlayedCountOf(s) = PlayedCountOf(u) => RestRoundsOf(s) >= RestRoundsOf(u)
            /\ NeverPlayed(u) => NeverPlayed(s)

\* of two players with the same count, the one who rested longer is seated and
\* the other left out
C7_Witness ==
  /\ Done
  /\ \E s, u \in Eligible :
       /\ Seated(s) /\ ~Seated(u)
       /\ PlayedCountOf(s) = PlayedCountOf(u)
       /\ RestRoundsOf(u) < RestRoundsOf(s)
       /\ RestRoundsOf(s) < NeverPlayedRest

BalanceTestInput ==
  /\ allPlayers = TestRoster(<<10, 8, 6, 4>>, 0)
  /\ currentCourts = <<Court(1, "allocating", EmptySlots)>>
  /\ history = <<>>

\* C8: on every court filled with 4 players the levels satisfy
\* slot0 >= slot2 >= slot3 >= slot1, and levels [10,8,6,4] on one open court give
\* [p(10), p(4), p(8), p(6)].
C8_BestWorstSecondThird ==
  Done => /\ \A i \in OutputAllocating :
               IsFull(result[i]) =>
                 /\ SlotLevel(result[i], 1) >= SlotLevel(result[i], 3)
                 /\ SlotLevel(result[i], 3) >= SlotLevel(result[i], 4)
                 /\ SlotLevel(result[i], 4) >= SlotLevel(result[i], 2)
          /\ BalanceTestInput => result[1].playerIds = <<1, 4, 2, 3>>

\* the test's four players are seated
C8_Witness ==
  Done /\ BalanceTestInput /\ result[1].playerIds = <<1, 4, 2, 3>>

\* court (0-based, among the k courts to fill) of the 0-based sorted position i
SnakeCourt(i, k) ==
  LET r == i % (2 * k) IN IF r < k THEN r ELSE 2 * k - 1 - r

\* the levels of the seated players, sorted descending
SortedSeatedLevels ==
  LET seated == {i \in 1..Len(allPlayers) : Seated(i)}
      levels == {allPlayers[i].level : i \in seated}
  IN  [pos \in 1..Cardinality(seated) |->
         CHOOSE v \in levels :
           /\ Cardinality({i \in seated : allPlayers[i].level > v}) < pos
           /\ pos <= Cardinality({i \in seated : allPlayers[i].level >= v})]

\* C9: with k courts to fill, the player at position i of the selected players
\* sorted by level descending sits on the court at index f(i) of the first k open
\* courts, f = 0,1,...,k-1,k-1,...,1,0 repeated; so each court holds the levels of
\* its positions of the seated players' sorted levels.
C9_SnakeLaw ==
  Done =>
    LET k == FillableCourts
        sel == <<>> \o SelectedPlayers(allPlayers, currentCourts, history, randomDraws)
        sorted == <<>> \o SortedSeatedLevels
    IN  k > 0 =>
          /\ Len(sel) = 4 * k
          /\ Len(sorted) = 4 * k
          /\ \A i \in 1..(4 * k) :
               \E j \in 1..4 : result[AllocAt(SnakeCourt(i - 1, k) + 1)].playerIds[j] = sel[i].id
          /\ \A c \in 0..(k - 1) :
               LET onCourt == [j \in 1..4 |-> SlotLevel(result[AllocAt(c + 1)], j)] IN
               \A v \in {sorted[i] : i \in 1..(4 * k)} :
                 Cardinality({j \in 1..4 : onCourt[j] = v})
                   = Cardinality({i \in 0..(4 * k - 1) :
                                    SnakeCourt(i, k) = c /\ sorted[i + 1] = v})

\* three courts are filled with players of three different levels
C9_Witness ==
  /\ Done
  /\ FillableCourts = 3
  /\ Cardinality({SortedSeatedLevels[i] : i \in DOMAIN SortedSeatedLevels}) >= 3
  /\ \A c \in 1..3 : IsFull(result[AllocAt(c)])

\* C10: the first min(open, floor(E/4)) allocating courts in input order are
\* filled, every other allocating court is returned with 4 empty slots.
C10_FirstCourtsFilledRestEmpty ==
  Done => \A i \in InputAllocating :
            /\ result[i].status = "allocating"
            /\ IF AllocRank(i) <= FillableCourts
               THEN IsFull(result[i])
               ELSE result[i].playerIds = EmptySlots

\* an allocating court that held players is emptied, an earlier one behind a
\* playing court is filled
C10_Witness ==
  /\ Done
  /\ \E i, j \in InputAllocating, p \in InputPlaying :
       /\ p < i /\ i < j
       /\ IsFull(result[i])
       /\ OccupiedCount(currentCourts[j]) > 0
       /\ result[j].playerIds = EmptySlots

\* C11: the returned list has the length of the input list, and the court at
\* each position keeps its id, name, type and status; playerIds may differ only
\* on courts that are not playing.
C11_CourtListFrame ==
  Done =>
    /\ Len(result) = Len(currentCourts)
    /\ \A i \in 1..Len(currentCourts) :
         /\ result[i].id = currentCourts[i].id
         /\ result[i].name = currentCourts[i].name
         /\ result[i].type = currentCourts[i].type
         /\ result[i].status = currentCourts[i].status
         /\ result[i].playerIds # currentCourts[i].playerIds
              => currentCourts[i].status # "playing"

\* a playing court next to a court whose slots the call rewrote
C11_Witness ==
  /\ Done
  /\ Len(result) > 1
  /\ \E i \in InputPlaying : result[i] = currentCourts[i]
  /\ \E i \in InputAllocating :
       /\ result[i].playerIds # currentCourts[i].playerIds
       /\ IsFull(result[i])

EligibleStats == PlayerStats(allPlayers, currentCourts, history, randomDraws)

\* no two eligible players have the same playedCount and the same restRounds
NoPriorityTies ==
  LET st == EligibleStats
  IN  \A i, j \in 1..Len(st) :
        i < j => \/ st[i].playedCount # st[j].playedCount
                 \/ st[i].restRounds # st[j].restRounds

\* C13: when no two eligible players share both playedCount and restRounds, the
\* court list returned is the one returned for every other sequence of draws.
C13_DrawsDoNotMatter ==
  (Done /\ NoPriorityTies) =>
    \A d \in AllDraws(allPlayers, currentCourts) :
      smartAllocation(allPlayers, currentCourts, history, d) = result

\* five eligible players for one court, two of them with the same playedCount and
\* different rests, and nobody tied on both
C13_Witness ==
  /\ Done
  /\ NoPriorityTies
  /\ \E i \in 1..Len(result) : IsFull(result[i])
  /\ LET st == EligibleStats
     IN  /\ Len(st) > CourtSize
         /\ \E i, j \in 1..Len(st) : i # j /\ st[i].playedCount = st[j].playedCount

\* C14: for every roster player, active or not, getPlayerStats gives the number of
\* match records of the history whose playerNames holds the player's name, and
\* smartAllocation computes the same playedCount for the players it ranks.
C14_PlayedCount ==
  statsRecord # <<>> =>
    /\ DOMAIN statsRecord[1] = {allPlayers[i].id : i \in 1..Len(allPlayers)}
    /\ \A i \in 1..Len(allPlayers) : statsRecord[1][allPlayers[i].id] = PlayedCountOf(i)
    /\ LET st == EligibleStats
       IN  \A k \in 1..Len(st) : st[k].playedCount = statsRecord[1][st[k].player.id]

\* counts taken on a history where an inactive player played, a player was in two
\* matches of one round, and two players share a name
C14_Witness ==
  /\ statsRecord # <<>>
  /\ \E i \in 1..Len(allPlayers) : ~allPlayers[i].isActive /\ statsRecord[1][i] > 0
  /\ \E i \in 1..Len(allPlayers) : statsRecord[1][i] > Len(history)
  /\ \E i, j \in 1..Len(allPlayers) : i # j /\ allPlayers[i].name = allPlayers[j].name
  /\ \E i \in 1..Len(allPlayers) : statsRecord[1][i] = 0

\* number of positions of a that hold v
Occurrences(a, v) == Cardinality({k \in 1..Len(a) : a[k] = v})

\* same length, and every element as many times in a as in b
IsPermutation(a, b) ==
  /\ Len(a) = Len(b)
  /\ \A v \in 1..MaxElement : Occurrences(a, v) = Occurrences(b, v)

\* C20: the array shuffleArray returns is a permutation of the argument, and the
\* argument is after the call what it was before.
C20_ShufflePermutes ==
  [][(shuffled = <<>> /\ shuffled' # <<>>) =>
       /\ IsPermutation(shuffled'[1], array)
       /\ array' = array]_vars

\* a call that returned another order of an array holding an element twice
C20_Witness ==
  /\ shuffled # <<>>
  /\ shuffled[1] # array
  /\ Len(array) > 2
  /\ \E v \in 1..MaxElement : Occurrences(array, v) > 1

\* the occupied slots of a court list, as <<court position, slot>> pairs
OccupiedSlots(cs) ==
  {cj \in (1..Len(cs)) \X (1..CourtSize) :
     cj[2] <= Len(cs[cj[1]].playerIds) /\ cs[cj[1]].playerIds[cj[2]] # NULL}

\* no player id occupies two slots of the court list
NoDoubleSeat(cs) ==
  \A a, b \in OccupiedSlots(cs) :
    cs[a[1]].playerIds[a[2]] = cs[b[1]].playerIds[b[2]] => a = b

\* C15: shufflePlayers, run on courts where no player id occupies two slots, leaves
\* courts where no player id occupies two slots, playing courts included.
\* (The code breaks this: shufflePlayers also deals out the players who are seated
\* on playing courts.)
C15_ShuffleSeatsOnce ==
  [][(ShufflePlayers /\ NoDoubleSeat(appCourts)) => NoDoubleSeat(appCourts')]_vars

\* number of match records in the history
RECURSIVE MatchRecordCount(_)
MatchRecordCount(rs) ==
  IF rs = <<>> THEN 0 ELSE Len(Head(rs).matches) + MatchRecordCount(Tail(rs))

\* C16: every successful start of a match adds one match record, so the history
\* holds as many match records as there were successful starts.
\* (The code breaks this: recordMatchStart drops a match that IsDuplicate.)
C16_OneRecordPerStart == MatchRecordCount(appRounds) = starts

\* every match of a round started less than one window after the round's creation
\* and not before it, and any two matches of a round less than one window apart
RoundsTimed(rs) ==
  \A r \in 1..Len(rs) :
    /\ \A k \in 1..Len(rs[r].matches) :
         /\ rs[r].matches[k].timestamp >= rs[r].timestamp
         /\ rs[r].matches[k].timestamp - rs[r].timestamp < GROUP_WINDOW_MS
    /\ \A k, l \in 1..Len(rs[r].matches) :
         rs[r].matches[k].timestamp - rs[r].matches[l].timestamp < GROUP_WINDOW_MS

\* this step is a successful start, one window or more after the last round's creation
LateStart ==
  /\ starts' = starts + 1
  /\ appRounds # <<>>
  /\ now' - appRounds[Len(appRounds)].timestamp >= GROUP_WINDOW_MS

\* C17: with a clock that does not run backwards, every match record of a round
\* has a timestamp less than 15 minutes after the round's creation, so two matches
\* of a round are less than 15 minutes apart; and a match started 15 minutes or
\* more after the last round's creation goes into a new round of its own.
C17_RoundWindow ==
  [][/\ RoundsTimed(appRounds')
     /\ LateStart =>
          /\ Len(appRounds') = Len(appRounds) + 1
          /\ SubSeq(appRounds', 1, Len(appRounds)) = appRounds
          /\ appRounds'[Len(appRounds')].timestamp = now'
          /\ Len(appRounds'[Len(appRounds')].matches) = 1
          /\ appRounds'[Len(appRounds')].matches[1].timestamp = now']_vars

\* a round holding two matches started one millisecond less than a window apart
C17_Witness ==
  \E r \in 1..Len(appRounds) :
    \E k, l \in 1..Len(appRounds[r].matches) :
      appRounds[r].matches[l].timestamp - appRounds[r].matches[k].timestamp
        = GROUP_WINDOW_MS - 1

\* C19: every court has exactly four slots, whatever operations have run.
C19_FourSlots ==
  \A i \in 1..Len(appCourts) : Len(appCourts[i].playerIds) = CourtSize

\* two operations later: a player was deleted, a court holds occupied and empty
\* slots, and there are two courts
C19_Witness ==
  /\ opCount > 1
  /\ Len(appCourts) > 1
  /\ Len(appPlayers) < CourtSize + 1
  /\ \E i \in 1..Len(appCourts) :
       /\ \E j \in 1..CourtSize : appCourts[i].playerIds[j] = NULL
       /\ \E j \in 1..CourtSize : appCourts[i].playerIds[j] # NULL

\* the non-null ids a list holds
IdSet(ids) == {ids[k] : k \in 1..Len(ids)} \ {NULL}

\* C21: arePlayerSetsEqual(A, B) is true exactly when A and B hold the same non-null
\* ids, whatever the order and the places of the nulls, and so gives the same result
\* on (B, A) as on (A, B).
\* (The code breaks this when a list holds an id twice: only the lengths of the
\* filtered lists and the membership of B's ids in A are compared.)
C21_SameIdsIff ==
  setsEqual # <<>> =>
    /\ setsEqual[1] <=> (IdSet(idsA) = IdSet(idsB))
    /\ setsEqual[1] = setsEqual[2]

\* the court of the list with the given id is not playing (or there is none)
NotPlaying(cs, courtId) ==
  \A i \in 1..Len(cs) : cs[i].id = courtId => cs[i].status # "playing"

MatchPlaces(rs, courtName) ==
  UNION {{<<r, k>> : k \in {m \in 1..Len(rs[r].matches) :
                               rs[r].matches[m].courtName = courtName}} :
           r \in 1..Len(rs)}

\* the record of the match started last on a court: rounds and the matches of a
\* round are in the order they were added
LastMatchPlace(rs, courtName) ==
  CHOOSE rk \in MatchPlaces(rs, courtName) :
    \A q \in MatchPlaces(rs, courtName) :
      q[1] < rk[1] \/ (q[1] = rk[1] /\ q[2] <= rk[2])

\* C23: a game finished with a winner (teamA or teamB) writes the result on the
\* record of the match started last on that court, the one made when the game
\* started, and changes no other record.
\* (The code breaks this: the result goes to the first record of the court without
\* a result that the newest round holding one has, or to none.)
C23_ResultOnStartedMatch ==
  [][\A courtId \in CourtIds, winner \in {"teamA", "teamB"} :
       HandleGameFinishOn(courtId, winner) =>
         LET name == appCourts[FindCourt(appCourts, courtId)].name
             last == LastMatchPlace(appRounds, name)
         IN  /\ MatchPlaces(appRounds, name) # {}
             /\ appRounds' =
                  [appRounds EXCEPT ![last[1]].matches[last[2]].result = winner]]_vars

\* the ids that players of the application have or had
PlayerIds == 1..(CourtSize + 1)

\* the places <<court, slot>> where a court list holds an id
SeatsOf(cs, id) ==
  {cj \in (1..Len(cs)) \X (1..CourtSize) : cs[cj[1]].playerIds[cj[2]] = id}

\* this step is a handler calling addPlayerToCourt(courtId, playerId, slotIndex)
AddPlayerToCourtCalled(courtId, playerId, slotIndex) ==
  \/ HandleDropPlayerOn(courtId, playerId, slotIndex)
  \/ pickerTarget = <<courtId, slotIndex>> /\ HandlePickPlayerOn(playerId)
  \/ selectedPlayerId = playerId /\ HandleSlotClickOn(courtId, slotIndex)
  \/ /\ selectedPlayerId = playerId
     /\ slotIndex = IndexOfNull(appCourts[FindCourt(appCourts, courtId)].playerIds)
     /\ HandleCourtClickOn(courtId)

\* C24: after addPlayerToCourt(courtId, playerId, slot) on an existing court the
\* player occupies that slot of that court and no other slot of any court, wherever
\* the player was seated before, on an allocating or on a playing court.
\* (The code breaks this: the player is not taken off a playing court.)
C24_SeatedInThatSlotOnly ==
  [][\A courtId \in CourtIds, playerId \in PlayerIds, slotIndex \in 0..(CourtSize - 1) :
       AddPlayerToCourtCalled(courtId, playerId, slotIndex) =>
         SeatsOf(appCourts', playerId) = {<<FindCourt(appCourts, courtId), slotIndex + 1>>}]_vars

\* this step finishes the game of a court
FinishedOn(courtId) == \E winner \in Winners : HandleGameFinishOn(courtId, winner)

\* C25: a playing court keeps its playerIds, the four slots occupied at its start,
\* through every step but the finish of its own game: no roster or court operation changes the
\* slots of a playing court.
\* (The code breaks this: togglePlayerStatus and deletePlayer empty the player's
\* slot on playing courts too.)
C25_PlayingCourtKeepsSlots ==
  [][\A i \in 1..Len(appCourts) :
       (appCourts[i].status = "playing" /\ ~FinishedOn(appCourts[i].id)) =>
         /\ i <= Len(appCourts')
         /\ appCourts'[i].id = appCourts[i].id
         /\ appCourts'[i].status = "playing"
         /\ appCourts'[i].playerIds = appCourts[i].playerIds]_vars

\* C26: whatever UI actions have run, every occupied court slot holds the id of a
\* player who is in the roster and active; so a player who was selected and then
\* set inactive or deleted is not placed on a court afterwards.
\* (The code breaks this: togglePlayerStatus and deletePlayer leave
\* selectedPlayerId as it is, and handleSlotClick and handleCourtClick seat the
\* selected id without looking at the roster.)
C26_SeatedAreActive ==
  \A cj \in OccupiedSlots(appCourts) :
    appCourts[cj[1]].playerIds[cj[2]] \in ActiveIds

\* C27: in useLocalStorageWithUndo and in useUndoRedo, a setState call that changes
\* the present pushes the present it replaces onto the undo stack and empties the
\* redo stack, also right after an undo or a redo, so that one undo brings back the
\* state the edit replaced.
\* (The code breaks this: the first setState after an undo or a redo finds the
\* skip flag set and records nothing.)
C27_EditsAreRecorded ==
  [][\A value \in Values :
       (SetStateTo(value) /\ value # hook.present /\ value # plain.present) =>
         /\ hook'.past = LastN(Append(hook.past, hook.present), MaxHistory)
         /\ hook'.future = <<>>
         /\ undo(hook').present = hook.present
         /\ plain'.past = LastN(Append(plain.past, plain.present), MaxHistory)
         /\ plain'.future = <<>>
         /\ useUndoRedo_undo(plain').present = plain.present]_vars

\* C28: when no debounce timer is pending (every timer armed by a setState has
\* fired) the item in localStorage, once written, is the present state, whatever
\* the order of setState, undo, redo and timer expiry was.
\* (The code breaks this: undo and redo save at once but leave the pending timer
\* and pendingValueRef alone, and the timer then saves the state that was undone.)
C28_StorageIsPresent ==
  (~hook.timeoutRef /\ hook.storage # <<>>) => hook.storage = <<hook.present>>

\* C29: one undo right after a successful match start brings back the whole
\* application state from before the start: the court is allocating again and the
\* match record of that start is gone.
\* (The code breaks this: the start is two setState calls, setCourts and then
\* setRounds, and each one is an undo step of its own.)
C29_UndoRevertsStart ==
  [][(AppUndo /\ preStart # <<>>) =>
       /\ hook'.present = preStart[1]
       /\ appCourts' = preStart[1].courts
       /\ appRounds' = preStart[1].rounds]_vars

\* C30: with maxHistory = N, whatever setState, undo and redo calls were made, the
\* undo stack (past) and the redo stack (future) of useLocalStorageWithUndo hold at
\* most N states each.
C30_StacksBounded ==
  /\ Len(hook.past) <= MaxHistory
  /\ Len(hook.future) <= MaxHistory

\* the undo stack is full and has lost the initial value, which every stack that
\* was never cut starts with
C30_Witness ==
  /\ Len(hook.past) = MaxHistory
  /\ hook.past[1] # 0

\* the played counts of the application's players
AppPlayedCounts == getPlayerStats(appPlayers, appRounds)

\* C18: after every cycle of smartAllocate, start of every filled court and finish
\* of every playing court, the played counts of two active players differ by at
\* most 1.  (The code breaks this: the matches recordMatchStart drops are not
\* counted.)
C18_CountsWithinOne ==
  CycleComplete =>
    LET counts == AppPlayedCounts
    IN  \A i, j \in 1..Len(appPlayers) :
          (appPlayers[i].isActive /\ appPlayers[j].isActive)
            => counts[appPlayers[i].id] - counts[appPlayers[j].id] <= 1

====
